---- MODULE Spec2Model ----
(***************************************************************************)
(* A model of one_click.py, the installer / updater / launcher of the web  *)
(* UI.  The program is sequential: the state is the position of the main   *)
(* script (pc), the locals of install_webui and update_requirements, the   *)
(* part of the host it reads (platform, machine, cpuinfo, environment      *)
(* variables, the tracked files), and the list of shell commands it has    *)
(* handed to subprocess.run so far.                                        *)
(*                                                                         *)
(* Python strings that the program searches or rewrites (the torch version *)
(* string, the requirements lines, what the user types) are sequences of   *)
(* one-character strings, so that `in`, replace, strip and split are       *)
(* computed character by character as Python computes them.  Strings that  *)
(* are only built and handed on (shell commands, paths) are TLA+ strings.  *)
(***************************************************************************)
EXTENDS Integers, Sequences, FiniteSets, TLC

----------------------------------------------------------------------------
(* Python str primitives over sequences of characters.                     *)

\* sub in s
Contains(sub, s) ==
    \E i \in 0..(Len(s) - Len(sub)) : SubSeq(s, i + 1, i + Len(sub)) = sub

StartsWith(s, prefix) ==
    /\ Len(prefix) <= Len(s)
    /\ SubSeq(s, 1, Len(prefix)) = prefix

\* s.replace(old, new): leftmost non-overlapping occurrences, old non-empty
RECURSIVE StrReplace(_, _, _)
StrReplace(s, old, new) ==
    IF Len(s) < Len(old) THEN s
    ELSE IF SubSeq(s, 1, Len(old)) = old
         THEN new \o StrReplace(SubSeq(s, Len(old) + 1, Len(s)), old, new)
         ELSE <<Head(s)>> \o StrReplace(Tail(s), old, new)

\* s.lstrip(chars), s.rstrip(chars), s.strip(chars): chars is a set of characters
RECURSIVE LStrip(_, _)
LStrip(s, chars) ==
    IF s # <<>> /\ Head(s) \in chars THEN LStrip(Tail(s), chars) ELSE s

RECURSIVE RStrip(_, _)
RStrip(s, chars) ==
    IF s # <<>> /\ s[Len(s)] \in chars
    THEN RStrip(SubSeq(s, 1, Len(s) - 1), chars)
    ELSE s

Strip(s, chars) == RStrip(LStrip(s, chars), chars)

\* s.split(sep)[-1] and s.split(sep)[0] for a one-character separator
RECURSIVE SplitLast(_, _)
SplitLast(s, sep) ==
    IF \E i \in 1..Len(s) : s[i] = sep
    THEN SplitLast(SubSeq(s, (CHOOSE i \in 1..Len(s) : s[i] = sep) + 1, Len(s)), sep)
    ELSE s

SplitFirst(s, sep) ==
    IF \E i \in 1..Len(s) : s[i] = sep
    THEN SubSeq(s, 1, (CHOOSE i \in 1..Len(s) :
                           s[i] = sep /\ \A j \in 1..(i - 1) : s[j] # sep) - 1)
    ELSE s

UpperChar(c) ==
    CASE c = "a" -> "A" [] c = "b" -> "B" [] c = "c" -> "C" [] c = "d" -> "D"
      [] c = "n" -> "N" [] c = "y" -> "Y" [] c = "x" -> "X" [] OTHER -> c

\* s.upper()
Upper(s) == [i \in 1..Len(s) |-> UpperChar(s[i])]

LowerChar(c) ==
    CASE c = "A" -> "a" [] c = "B" -> "b" [] c = "C" -> "c" [] c = "D" -> "d"
      [] c = "N" -> "n" [] c = "Y" -> "y" [] c = "X" -> "x" [] c = "O" -> "o"
      [] c = "E" -> "e" [] c = "S" -> "s" [] c = "T" -> "t" [] c = "R" -> "r"
      [] c = "U" -> "u" [] c = "F" -> "f" [] c = "L" -> "l" [] OTHER -> c

\* s.lower()
Lower(s) == [i \in 1..Len(s) |-> LowerChar(s[i])]

\* the characters of s as one TLA+ string (an f-string interpolation)
RECURSIVE Str(_)
Str(s) == IF s = <<>> THEN "" ELSE Head(s) \o Str(Tail(s))

----------------------------------------------------------------------------
(* The host and the files the program reads.                               *)

\* sys.platform
Platforms == {"linux", "win32", "darwin"}

\* platform.machine()
Machines == {"x86_64", "arm64"}

\* cpuinfo.get_cpu_info(): the import or the call raises, or it returns the flags
Cpuinfos == { [raises |-> TRUE,  flags |-> {}],
              [raises |-> FALSE, flags |-> {"sse2", "avx2"}],
              [raises |-> FALSE, flags |-> {"sse2"}] }

\* torch's __version__, as torch_version() returns it
V_cu121 == <<"2", ".", "1", ".", "2", "+", "c", "u", "1", "2", "1">>
V_cu118 == <<"2", ".", "1", ".", "2", "+", "c", "u", "1", "1", "8">>
V_rocm  == <<"2", ".", "1", ".", "2", "+", "r", "o", "c", "m", "5", ".", "6">>
V_intel == <<"2", ".", "1", ".", "0", "a", "0", "+", "c", "x", "x", "1", "1", ".", "a", "b", "i">>
V_cpu   == <<"2", ".", "1", ".", "2", "+", "c", "p", "u">>
V_plain == <<"2", ".", "1", ".", "2">>

TorchVersions == {V_cu121, V_cu118, V_rocm, V_intel, V_cpu, V_plain}

files_to_check ==
    << "start_linux.sh", "start_macos.sh", "start_windows.bat", "start_wsl.bat",
       "update_linux.sh", "update_macos.sh", "update_windows.bat", "update_wsl.bat",
       "one_click.py" >>

TrackedFiles == {files_to_check[i] : i \in 1..Len(files_to_check)}

\* what a path holds: no regular file there, or a file with these bytes
Absent == "absent"
Contents == {"bytes1", "bytes2"}

\* hashlib.sha256(bytes).hexdigest(): distinct bytes give distinct digests
\* (collisions are not modelled), and no digest is the empty string
Sha256Hex(bytes) == "sha256:" \o bytes

calculate_file_hash(fs, file_path) ==
    IF fs[file_path] # Absent THEN Sha256Hex(fs[file_path]) ELSE ""

FileHashes(fs) == [file_name \in TrackedFiles |-> calculate_file_hash(fs, file_name)]

is_linux(p)   == p = "linux"
is_windows(p) == p = "win32"
is_macos(p)   == p = "darwin"
is_x86_64(m)  == m = "x86_64"

cpu_has_avx2(c) == IF c.raises THEN TRUE ELSE "avx2" \in c.flags

\* os.path.join
Sep(p) == IF is_windows(p) THEN "\\" ELSE "/"
PathJoin3(p, a, b, c) == a \o Sep(p) \o b \o Sep(p) \o c

\* os.environ[...].lower() in ("yes", "y", "true", "1", "t", "on")
Truthy(v) ==
    Lower(v) \in { <<"y", "e", "s">>, <<"y">>, <<"t", "r", "u", "e">>, <<"1">>, <<"t">>, <<"o", "n">> }

\* os.environ.get(...).lower() in ("no", "n", "false", "0", "f", "off")
Falsy(v) ==
    Lower(v) \in { <<"n", "o">>, <<"n">>, <<"f", "a", "l", "s", "e">>, <<"0">>, <<"f">>, <<"o", "f", "f">> }

----------------------------------------------------------------------------
(* install_webui: from the GPU choice to the install commands.             *)

\* a local that holds no value yet (no Python string is this sequence)
None == <<"None">>

gpu_choice_to_name ==
    [k \in {"A", "B", "C", "D", "N"} |->
        CASE k = "A" -> "NVIDIA" [] k = "B" -> "AMD" [] k = "C" -> "APPLE"
          [] k = "D" -> "INTEL" [] k = "N" -> "NONE"]

\* line 197: the name looked up for the choice
SelectedGpu(ch) == gpu_choice_to_name["A"]

\* line 185: the while condition of the GPU prompt, choice not in 'ABCDN'
InvalidGpuChoice(ch) == ~Contains(ch, <<"A", "B", "C", "D", "N">>)

\* line 217: the while condition of the CUDA prompt, use_cuda118 not in 'YN'
InvalidCudaChoice(u) == ~Contains(u, <<"Y", "N">>)

\* line 216: input(...).upper().strip('"\'').strip()
CudaInput(typed) == Strip(Strip(Upper(typed), {"\"", "'"}), {" "})

\* line 210: whether the CUDA version is asked for at all
AsksCuda(p, gpu) == (is_windows(p) \/ is_linux(p)) /\ gpu = "NVIDIA"

install_git == "conda install -y -k ninja git"

install_pytorch_base ==
    "python -m pip install torch==2.1.* torchvision==0.16.* torchaudio==2.1.* "

install_pytorch_intel ==
    "python -m pip install torch==2.1.0a0 torchvision==0.16.0a0 torchaudio==2.1.0a0 intel-extension-for-pytorch==2.1.10 --extra-index-url https://pytorch-extension.intel.com/release-whl/stable/xpu/us/"

\* lines 207-236: the framework install command, or the fatal AMD branch
FindInstallCommand(p, gpu, u) ==
    IF AsksCuda(p, gpu)
    THEN [fatal |-> FALSE,
          install_pytorch |->
              IF u = <<"Y">>
              THEN install_pytorch_base \o "--index-url https://download.pytorch.org/whl/cu118"
              ELSE install_pytorch_base \o "--index-url https://download.pytorch.org/whl/cu121"]
    ELSE IF ~is_macos(p) /\ gpu = "AMD"
    THEN IF is_linux(p)
         THEN [fatal |-> FALSE,
               install_pytorch |->
                   install_pytorch_base \o "--index-url https://download.pytorch.org/whl/rocm5.6"]
         ELSE [fatal |-> TRUE, install_pytorch |-> install_pytorch_base]
    ELSE IF is_linux(p) /\ gpu \in {"APPLE", "NONE"}
    THEN [fatal |-> FALSE,
          install_pytorch |->
              install_pytorch_base \o "--index-url https://download.pytorch.org/whl/cpu"]
    ELSE IF gpu = "INTEL"
    THEN [fatal |-> FALSE, install_pytorch |-> install_pytorch_intel]
    ELSE [fatal |-> FALSE, install_pytorch |-> install_pytorch_base]

\* line 240: the command that installs git, torch and py-cpuinfo
FrameworkCommand(ip) ==
    install_git \o " && " \o ip \o " && python -m pip install py-cpuinfo==9.0.0"

\* line 245
CudaRuntimeCommand(u) ==
    "conda install -y -c \"nvidia/label/"
        \o (IF u = <<"N">> THEN "cuda-12.1.1" ELSE "cuda-11.8.0")
        \o "\" cuda-runtime"

\* lines 243-252: the runtime installs that follow the framework install, in
\* order, each with the assert_success and environment arguments of its run_cmd
RuntimeCommands(gpu, u) ==
    (IF gpu = "NVIDIA"
     THEN << [cmd |-> CudaRuntimeCommand(u), assert_success |-> TRUE, environment |-> TRUE] >>
     ELSE << >>)
    \o
    (IF gpu = "INTEL"
     THEN << [cmd |-> "conda install -y -c intel dpcpp-cpp-rt=2024.0 mkl-dpcpp=2024.0",
              assert_success |-> FALSE, environment |-> FALSE],
             [cmd |-> "conda install -y libuv",
              assert_success |-> FALSE, environment |-> FALSE] >>
     ELSE << >>)

----------------------------------------------------------------------------
(* update_requirements: the pure parts.                                    *)

\* line 288
skip == {"superbooga", "superboogav2", "coqui_tts"}

\* lines 289-290: the folders of extensions/ that hold a requirements.txt and
\* are not skipped, in os.listdir's order
ExtensionsToInstall(listing) ==
    LET withreq == SelectSeq(listing, LAMBDA d : d.requirements)
        kept    == SelectSeq(withreq, LAMBDA d : d.foldername \notin skip)
    IN  [i \in 1..Len(kept) |-> kept[i].foldername]

\* line 294 and line 341
ExtensionInstallCommand(p, extension) ==
    "python -m pip install -r "
        \o PathJoin3(p, "extensions", extension, "requirements.txt")
        \o " --upgrade"

\* lines 300-304
is_cuda(tv)    == Contains(<<"+", "c", "u">>, tv)
is_cuda118(tv) == Contains(<<"+", "c", "u", "1", "1", "8">>, tv)
is_rocm(tv)    == Contains(<<"+", "r", "o", "c", "m">>, tv)
is_intel(tv)   == Contains(<<"+", "c", "x", "x", "1", "1">>, tv)
is_cpu(tv)     == Contains(<<"+", "c", "p", "u">>, tv)

\* ("_noavx2" if not cpu_has_avx2() else "")
NoAvx2Suffix(c) == IF ~cpu_has_avx2(c) THEN "_noavx2" ELSE ""

\* BaseRequirements with a bug: macOS is looked at before the torch build
BaseRequirements_MacFirst(tv, p, m, c) ==
    IF is_macos(p)
    THEN "requirements_apple_" \o (IF is_x86_64(m) THEN "intel" ELSE "silicon") \o ".txt"
    ELSE IF is_rocm(tv)
    THEN "requirements_amd" \o NoAvx2Suffix(c) \o ".txt"
    ELSE IF is_cpu(tv) \/ is_intel(tv)
    THEN "requirements_cpu_only" \o NoAvx2Suffix(c) \o ".txt"
    ELSE "requirements" \o NoAvx2Suffix(c) \o ".txt"

\* lines 306-315
BaseRequirements(tv, p, m, c) ==
    IF is_rocm(tv)
    THEN "requirements_amd" \o NoAvx2Suffix(c) \o ".txt"
    ELSE IF is_cpu(tv) \/ is_intel(tv)
    THEN "requirements_cpu_only" \o NoAvx2Suffix(c) \o ".txt"
    ELSE IF is_macos(p)
    THEN "requirements_apple_" \o (IF is_x86_64(m) THEN "intel" ELSE "silicon") \o ".txt"
    ELSE "requirements" \o NoAvx2Suffix(c) \o ".txt"

\* which host facts lines 306-313 probe on the way to the file name
ProbesAvx2(tv, p) == is_rocm(tv) \/ is_cpu(tv) \/ is_intel(tv) \/ ~is_macos(p)
ProbesMachine(tv, p) == ~is_rocm(tv) /\ ~(is_cpu(tv) \/ is_intel(tv)) /\ is_macos(p)

S_cu121 == <<"+", "c", "u", "1", "2", "1">>
S_cu122 == <<"+", "c", "u", "1", "2", "2">>
S_cu118 == <<"+", "c", "u", "1", "1", "8">>

\* Cuda118Line with a bug: +cu122 is left as it is
Cuda118Line_Only121(req) == StrReplace(req, S_cu121, S_cu118)

\* line 323: req.replace('+cu121', '+cu118').replace('+cu122', '+cu118')
Cuda118Line(req) == StrReplace(StrReplace(req, S_cu121, S_cu118), S_cu122, S_cu118)

\* line 323, over the list
Cuda118Patch(reqs) == [i \in 1..Len(reqs) |-> Cuda118Line(reqs[i])]

S_flash == <<"j", "l", "l", "l", "l", "l", "l", "/", "f", "l", "a", "s", "h", "-", "a", "t", "t", "e", "n", "t", "i", "o", "n">>

\* line 325
RemoveFlashAttention(reqs) == SelectSeq(reqs, LAMBDA req : ~Contains(S_flash, req))

\* line 331
GitRequirements(reqs) == SelectSeq(reqs, LAMBDA req : StartsWith(req, <<"g", "i", "t", "+">>))

\* lines 333-334: req.replace("git+", ""), then
\* url.split("/")[-1].split("@")[0].rstrip(".git")
PackageName(req) ==
    LET url == StrReplace(req, <<"g", "i", "t", "+">>, <<>>)
    IN  RStrip(SplitFirst(SplitLast(url, "/"), "@"), {".", "g", "i", "t"})

\* line 335
UninstallCommand(req) == "python -m pip uninstall -y " \o Str(PackageName(req))

----------------------------------------------------------------------------
(* What the run reads from outside: typed input, environment variables,    *)
(* directory listings, file contents, exit statuses of the shell commands. *)

\* the number of tracked files one pull may change
MaxChanged == 2

\* exit statuses of a shell command
ReturnCodes == {0, 1}

\* exit statuses of `conda list -f pytorch-cuda | grep pytorch-cuda`
GrepReturnCodes == {0, 1, 2}

\* what the user may type at the GPU prompt
GpuTyped == { <<"a">>, <<"B">>, <<"c">>, <<"D">>, <<"n">>, <<>>, <<"A", "B">>, <<"b", "c", "d">>, <<"X">>, <<"A", "C">> }

\* values of GPU_CHOICE
GpuChoiceEnv == { <<"a">>, <<"B">>, <<"C">>, <<"d">>, <<"N">> }

\* what the user may type at the CUDA prompt
CudaTyped == { <<"y">>, <<"N">>, <<>>, <<"Y", "N">>, <<"x">>, <<"'", "y", "'">> }

\* values of USE_CUDA118, INSTALL_EXTENSIONS and LAUNCH_AFTER_INSTALL
BoolEnv == { <<"Y", "e", "s">>, <<"1">>, <<"n", "o">>, <<"0">>, <<"m", "a", "y", "b", "e">> }

\* os.listdir('extensions') with, for each folder, whether it holds requirements.txt
ExtensionListings ==
    { << >>,
      << [foldername |-> "openai", requirements |-> TRUE] >>,
      << [foldername |-> "whisper_stt", requirements |-> TRUE],
         [foldername |-> "superbooga", requirements |-> TRUE],
         [foldername |-> "gallery", requirements |-> FALSE],
         [foldername |-> "openai", requirements |-> TRUE] >> }

\* contents of the chosen requirements file, as read by splitlines()
RequirementsFiles ==
    { << <<"n", "u", "m", "p", "y">> >>,
      << <<"a", "+", "c", "u", "1", "2", "1">>,
         <<"g", "i", "t", "+", "h", "/", "o", "/", "p", "e", "f", "t", ".", "g", "i", "t", "@", "v", "1">>,
         <<"j", "l", "l", "l", "l", "l", "l", "/", "f", "l", "a", "s", "h", "-", "a", "t", "t", "e", "n", "t", "i", "o", "n", "+", "c", "u", "1", "2", "2">> >> }

\* contents of a requirements file for the legacy-CUDA patch alone
PatchLines ==
    { <<>>, <<"x">>, <<"a", "+", "c", "u", "1", "2", "1">>, <<"a", "+", "c", "u", "1", "2", "2", "b">>, <<"a", "+", "c", "u", "1", "1", "8">>, <<"+", "c", "u", "1", "2", "1", "+", "c", "u", "1", "2", "2">>, <<"+", "c", "u", "1", "2">>,
      <<"+", "c", "u", "1", "2", "1", "1">>, <<"+", "+", "c", "u", "1", "2", "1">>, <<"+", "c", "u", "1", "2", "+", "c", "u", "1", "2", "1">>, <<"+", "c", "u", "+", "c", "u", "1", "2", "2">>, <<"+", "c", "u", "1", "2", "1", "+", "c", "u", "1", "2", "1">> }

MaxLines == 2

PatchFiles == UNION { [1..n -> PatchLines] : n \in 0..MaxLines }

----------------------------------------------------------------------------
(* The state.                                                              *)

VARIABLES
    platform,              \* sys.platform
    args_update,           \* args.update
    files,                 \* tracked file -> what the working tree holds there
    pc,                    \* where the script is
    exit_status,           \* {} while running, {code} once the process has ended
    printed,               \* the messages printed on the fatal paths, in order
    issued,                \* the commands handed to run_cmd so far, in order
    installed,             \* what is_installed() returned: "True", "False", or "not called"
    choice,                \* install_webui's locals
    selected_gpu,
    use_cuda118,
    install_pytorch,
    rt_i,
    initial_installation,  \* update_requirements' parameter and locals
    before_pull_hashes,
    after_pull_hashes,
    extensions,
    ext_i,
    torver,
    machine,
    cpuinfo,
    requirements_file,
    requirements_text,
    textgen_requirements,
    git_i

hostVars == <<platform, args_update>>

installLocals == <<choice, selected_gpu, use_cuda118, install_pytorch, rt_i>>

pullLocals == <<before_pull_hashes, after_pull_hashes>>

extLocals == <<extensions, ext_i>>

reqLocals ==
    <<torver, machine, cpuinfo, requirements_file, requirements_text,
      textgen_requirements, git_i>>

updateLocals == <<initial_installation, pullLocals, extLocals, reqLocals>>

vars ==
    <<hostVars, files, pc, exit_status, printed, issued, installed,
      installLocals, updateLocals>>

\* a host fact the run has not probed yet
NotProbed == "not probed"
NoCpuinfo == [raises |-> FALSE, flags |-> {NotProbed}]

NoHashes == [file_name \in TrackedFiles |-> ""]

\* the working tree before the run: every tracked file but one is there
InitialFiles ==
    [file_name \in TrackedFiles |->
        IF file_name = "update_wsl.bat" THEN Absent ELSE "bytes1"]

LocalsInit ==
    /\ installed = "not called"
    /\ choice = None
    /\ selected_gpu = ""
    /\ use_cuda118 = None
    /\ install_pytorch = ""
    /\ rt_i = 1
    /\ initial_installation = FALSE
    /\ before_pull_hashes = NoHashes
    /\ after_pull_hashes = NoHashes
    /\ extensions = <<>>
    /\ ext_i = 1
    /\ requirements_file = ""
    /\ requirements_text = <<>>
    /\ textgen_requirements = <<>>
    /\ git_i = 1

Init ==
    /\ platform \in Platforms
    /\ args_update \in BOOLEAN
    /\ files = InitialFiles
    /\ pc = "check_env"
    /\ exit_status = {}
    /\ printed = <<>>
    /\ issued = <<>>
    /\ torver = None
    /\ machine = NotProbed
    /\ cpuinfo = NoCpuinfo
    /\ LocalsInit

----------------------------------------------------------------------------
(* run_cmd and the ways a step ends.                                       *)

\* lines 149-155: the shell line run_cmd builds
ShellLine(p, cmd, environment) ==
    IF environment
    THEN IF is_windows(p)
         THEN "\"{conda_bat_path}\" activate \"{conda_env_path}\" >nul && " \o cmd
         ELSE ". \"{conda_sh_path}\" && conda activate \"{conda_env_path}\" && " \o cmd
    ELSE cmd

\* line 158: one more command run.  returncode is <<rc>> where the caller
\* looks at the exit status (or would, had it asserted success) and for the
\* per-extension installs; it is << >> where the result is dropped unread.
Issue(cmd, assert_success, environment, returncode) ==
    Append(issued, [cmd |-> cmd, assert_success |-> assert_success,
                    environment |-> environment, returncode |-> returncode])

\* line 162
FailedMessage(p, cmd, environment, rc) ==
    "Command '" \o ShellLine(p, cmd, environment)
        \o "' failed with exit status code '" \o ToString(rc) \o "'."

\* sys.exit(1) after a message
Die(message) ==
    /\ pc' = "exited"
    /\ exit_status' = {1}
    /\ printed' = Append(printed, message)

\* the script ends, or sys.exit()
Finish ==
    /\ pc' = "exited"
    /\ exit_status' = {0}
    /\ printed' = printed

Goto(label) ==
    /\ pc' = label
    /\ exit_status' = exit_status
    /\ printed' = printed

\* lines 161-165: what follows a command run with assert_success=True
AssertSuccess(cmd, rc, label) ==
    IF rc # 0 THEN Die(FailedMessage(platform, cmd, TRUE, rc)) ELSE Goto(label)

----------------------------------------------------------------------------
(* __main__ and install_webui.                                             *)

\* lines 109-119
CheckEnv ==
    /\ pc = "check_env"
    /\ \E rc \in ReturnCodes, base \in BOOLEAN :
        /\ issued' = Issue("conda", FALSE, TRUE, <<rc>>)
        /\ IF rc # 0
           THEN Die("Conda is not installed. Exiting...")
           ELSE IF base
           THEN Die("Create an environment for this project and activate it. Exiting...")
           ELSE Goto("main")
    /\ UNCHANGED <<hostVars, files, installed, installLocals, updateLocals>>

\* lines 367-376: --update goes to update_requirements(); otherwise
\* install_webui() runs unless is_installed()
Main ==
    /\ pc = "main"
    /\ IF args_update
       THEN /\ Goto("update_requirements")
            /\ installed' = installed
       ELSE \E is_installed \in {"True", "False"} :
            /\ installed' = is_installed
            /\ Goto(IF is_installed = "True" THEN "launch_check" ELSE "gpu_choice")
    /\ initial_installation' = FALSE
    /\ UNCHANGED <<hostVars, files, issued, installLocals, pullLocals, extLocals,
                   reqLocals>>

\* lines 170-184: GPU_CHOICE if it is set, else what is typed at the prompt
GpuChoice ==
    /\ pc = "gpu_choice"
    /\ \E env \in GpuChoiceEnv \cup {None}, typed \in GpuTyped :
        IF env # None
        THEN /\ choice' = Upper(env)
             /\ Goto("selected_gpu")
        ELSE /\ choice' = Upper(typed)
             /\ Goto("gpu_prompt")
    /\ UNCHANGED <<hostVars, files, issued, installed, selected_gpu, use_cuda118,
                   install_pytorch, rt_i, updateLocals>>

\* lines 185-187: one evaluation of the while condition, and the body if it holds
GpuPrompt ==
    /\ pc = "gpu_prompt"
    /\ IF InvalidGpuChoice(choice)
       THEN \E typed \in GpuTyped :
            /\ choice' = Upper(typed)
            /\ Goto("gpu_prompt")
       ELSE /\ choice' = choice
            /\ Goto("selected_gpu")
    /\ UNCHANGED <<hostVars, files, issued, installed, selected_gpu, use_cuda118,
                   install_pytorch, rt_i, updateLocals>>

\* lines 189-216: the GPU name; then USE_CUDA118 or the CUDA prompt, for
\* NVIDIA on linux or windows.  (CMD_FLAGS.txt, which lines 199-203 append
\* --cpu to, is not part of the state.)
SelectGpu ==
    /\ pc = "selected_gpu"
    /\ selected_gpu' = SelectedGpu(choice)
    /\ IF AsksCuda(platform, selected_gpu')
       THEN \E env \in BoolEnv \cup {None}, typed \in CudaTyped :
            IF env # None
            THEN /\ use_cuda118' = (IF Truthy(env) THEN <<"Y">> ELSE <<"N">>)
                 /\ Goto("find_command")
            ELSE /\ use_cuda118' = CudaInput(typed)
                 /\ Goto("cuda_prompt")
       ELSE /\ use_cuda118' = <<"N">>
            /\ Goto("find_command")
    /\ UNCHANGED <<hostVars, files, issued, installed, choice, install_pytorch,
                   rt_i, updateLocals>>

\* lines 217-219
CudaPrompt ==
    /\ pc = "cuda_prompt"
    /\ IF InvalidCudaChoice(use_cuda118)
       THEN \E typed \in CudaTyped :
            /\ use_cuda118' = CudaInput(typed)
            /\ Goto("cuda_prompt")
       ELSE /\ use_cuda118' = use_cuda118
            /\ Goto("find_command")
    /\ UNCHANGED <<hostVars, files, issued, installed, choice, selected_gpu,
                   install_pytorch, rt_i, updateLocals>>

\* lines 221-240: the framework install command is found, or AMD off linux
\* ends the run; then git, torch and py-cpuinfo are installed
InstallPytorch ==
    /\ pc = "find_command"
    /\ LET found == FindInstallCommand(platform, selected_gpu, use_cuda118)
           cmd   == FrameworkCommand(found.install_pytorch)
       IN  IF found.fatal
           THEN /\ Die("AMD GPUs are only supported on Linux. Exiting...")
                /\ UNCHANGED <<issued, install_pytorch>>
           ELSE \E rc \in ReturnCodes :
                /\ install_pytorch' = found.install_pytorch
                /\ issued' = Issue(cmd, TRUE, TRUE, <<rc>>)
                /\ AssertSuccess(cmd, rc, "install_runtime")
    /\ rt_i' = 1
    /\ UNCHANGED <<hostVars, files, installed, choice, selected_gpu, use_cuda118,
                   updateLocals>>

\* lines 243-252: the next runtime install, if one is left
InstallRuntime ==
    /\ pc = "install_runtime"
    /\ rt_i <= Len(RuntimeCommands(selected_gpu, use_cuda118))
    /\ LET c == RuntimeCommands(selected_gpu, use_cuda118)[rt_i]
       IN  IF c.assert_success
           THEN \E rc \in ReturnCodes :
                /\ issued' = Issue(c.cmd, TRUE, c.environment, <<rc>>)
                /\ AssertSuccess(c.cmd, rc, "install_runtime")
           ELSE /\ issued' = Issue(c.cmd, FALSE, c.environment, << >>)
                /\ Goto("install_runtime")
    /\ rt_i' = rt_i + 1
    /\ UNCHANGED <<hostVars, files, installed, choice, selected_gpu, use_cuda118,
                   install_pytorch, updateLocals>>

\* line 255: update_requirements(initial_installation=True).  install_webui
\* reads none of its locals after the call, and the callee cannot: they are
\* dropped here.
CallUpdateRequirements ==
    /\ pc = "install_runtime"
    /\ rt_i > Len(RuntimeCommands(selected_gpu, use_cuda118))
    /\ Goto("update_requirements")
    /\ initial_installation' = TRUE
    /\ choice' = None
    /\ selected_gpu' = ""
    /\ use_cuda118' = None
    /\ install_pytorch' = ""
    /\ rt_i' = 1
    /\ UNCHANGED <<hostVars, files, issued, installed, pullLocals, extLocals,
                   reqLocals>>

----------------------------------------------------------------------------
(* update_requirements.                                                    *)

git_creation_cmd ==
    "git init -b main && git remote add origin https://github.com/oobabooga/text-generation-webui && git fetch && git symbolic-ref refs/remotes/origin/HEAD refs/remotes/origin/main && git reset --hard origin/main && git branch --set-upstream-to=origin/main"

git_pull_cmd == "git pull --autostash"

requirements_cmd == "python -m pip install -r temp_requirements.txt --upgrade"

conda_list_cmd == "conda list -f pytorch-cuda | grep pytorch-cuda"

conda_clean_cmd == "conda clean -a -y"

pip_purge_cmd == "python -m pip cache purge"

server_cmd == "python server.py {flags}"

\* lines 260-262: the .git directory is created if it is missing
GitInit ==
    /\ pc = "update_requirements"
    /\ \E git_exists \in BOOLEAN :
        IF ~git_exists
        THEN \E rc \in ReturnCodes :
             /\ issued' = Issue(git_creation_cmd, TRUE, TRUE, <<rc>>)
             /\ AssertSuccess(git_creation_cmd, rc, "git_pull")
        ELSE /\ issued' = issued
             /\ Goto("git_pull")
    /\ UNCHANGED <<hostVars, files, installed, installLocals, updateLocals>>

\* the working trees a pull may leave: at most MaxChanged tracked files
\* changed, each to other bytes, or removed, or created
PullOutcomes(fs) ==
    { [file_name \in TrackedFiles |->
          IF file_name \in DOMAIN new THEN new[file_name] ELSE fs[file_name]] :
      new \in UNION { { f \in [S -> Contents \cup {Absent}] :
                          \A file_name \in S : f[file_name] # fs[file_name] } :
                      S \in { T \in SUBSET TrackedFiles : Cardinality(T) <= MaxChanged } } }

\* lines 270-272: fingerprints, the pull, fingerprints again
GitPull ==
    /\ pc = "git_pull"
    /\ before_pull_hashes' = FileHashes(files)
    /\ \E rc \in ReturnCodes :
        /\ issued' = Issue(git_pull_cmd, TRUE, TRUE, <<rc>>)
        /\ IF rc # 0
           THEN /\ Die(FailedMessage(platform, git_pull_cmd, TRUE, rc))
                /\ UNCHANGED <<files, after_pull_hashes>>
           ELSE /\ files' \in PullOutcomes(files)
                /\ after_pull_hashes' = FileHashes(files')
                /\ Goto("check_hashes")
    /\ UNCHANGED <<hostVars, installed, installLocals, initial_installation,
                   extLocals, reqLocals>>

\* ChangedFiles with a bug: a file that was not there before the pull is not compared
ChangedFiles_CreatedUnseen(before, after) ==
    SelectSeq(files_to_check,
              LAMBDA file_name : before[file_name] # "" /\ before[file_name] # after[file_name])

\* lines 275-278: the tracked files whose fingerprint changed, in list order
ChangedFiles(before, after) ==
    SelectSeq(files_to_check, LAMBDA file_name : before[file_name] # after[file_name])

UpdatedMessage(file_name) ==
    "File '" \o file_name \o "' was updated during 'git pull'. Please run the script again."

\* CheckHashes with a bug: the message is printed and the run goes on
CheckHashes_NoExit ==
    /\ pc = "check_hashes"
    /\ LET changed == ChangedFiles(before_pull_hashes, after_pull_hashes)
       IN  /\ pc' = "install_decision"
           /\ exit_status' = exit_status
           /\ printed' = (IF changed # << >>
                          THEN Append(printed, UpdatedMessage(changed[1]))
                          ELSE printed)
    /\ UNCHANGED <<hostVars, files, issued, installed, installLocals, updateLocals>>

\* lines 275-278: the run ends at the first tracked file that changed
CheckHashes ==
    /\ pc = "check_hashes"
    /\ LET changed == ChangedFiles(before_pull_hashes, after_pull_hashes)
       IN  IF changed # << >>
           THEN Die(UpdatedMessage(changed[1]))
           ELSE Goto("install_decision")
    /\ UNCHANGED <<hostVars, files, issued, installed, installLocals, updateLocals>>

\* lines 282-290 and 295-296: whether the extensions' requirements are
\* installed, and of which extensions
InstallDecision ==
    /\ pc = "install_decision"
    /\ \E env \in BoolEnv \cup {None}, listing \in ExtensionListings :
        LET install == IF env # None THEN Truthy(env) ELSE initial_installation
        IN  extensions' = (IF install THEN ExtensionsToInstall(listing) ELSE << >>)
    /\ ext_i' = 1
    /\ Goto("install_extensions")
    /\ UNCHANGED <<hostVars, files, issued, installed, installLocals,
                   initial_installation, pullLocals, reqLocals>>

\* InstallExtension with a bug: run_cmd is called with assert_success=True
InstallExtension_Asserting ==
    /\ pc = "install_extensions"
    /\ ext_i <= Len(extensions)
    /\ \E rc \in ReturnCodes :
        /\ issued' = Issue(ExtensionInstallCommand(platform, extensions[ext_i]),
                           TRUE, TRUE, <<rc>>)
        /\ AssertSuccess(ExtensionInstallCommand(platform, extensions[ext_i]), rc,
                         "install_extensions")
    /\ ext_i' = ext_i + 1
    /\ UNCHANGED <<hostVars, files, installed, installLocals, initial_installation,
                   pullLocals, extensions, reqLocals>>

\* lines 291-294: the next extension's requirements
InstallExtension ==
    /\ pc = "install_extensions"
    /\ ext_i <= Len(extensions)
    /\ \E rc \in ReturnCodes :
        issued' = Issue(ExtensionInstallCommand(platform, extensions[ext_i]),
                        FALSE, TRUE, <<rc>>)
    /\ ext_i' = ext_i + 1
    /\ Goto("install_extensions")
    /\ UNCHANGED <<hostVars, files, installed, installLocals, initial_installation,
                   pullLocals, extensions, reqLocals>>

\* lines 299-315: the torch build, and the requirements file for it.  Only
\* the host facts the taken branch probes are read.
SelectRequirements ==
    /\ pc = "install_extensions"
    /\ ext_i > Len(extensions)
    /\ \E tv \in TorchVersions, m \in Machines, c \in Cpuinfos :
        /\ torver' = tv
        /\ machine' = (IF ProbesMachine(tv, platform) THEN m ELSE machine)
        /\ cpuinfo' = (IF ProbesAvx2(tv, platform) THEN c ELSE cpuinfo)
        /\ requirements_file' = BaseRequirements(tv, platform, m, c)
    /\ Goto("read_requirements")
    /\ UNCHANGED <<hostVars, files, issued, installed, installLocals,
                   initial_installation, pullLocals, extLocals, requirements_text,
                   textgen_requirements, git_i>>

\* line 321: open(requirements_file).read().splitlines()
ReadRequirements ==
    /\ pc = "read_requirements"
    /\ \E content \in RequirementsFiles :
        /\ requirements_text' = content
        /\ textgen_requirements' = content
    /\ Goto("patch_requirements")
    /\ UNCHANGED <<hostVars, files, issued, installed, installLocals,
                   initial_installation, pullLocals, extLocals, torver, machine,
                   cpuinfo, requirements_file, git_i>>

\* lines 322-323: the legacy-CUDA patch
PatchRequirements ==
    /\ pc = "patch_requirements"
    /\ textgen_requirements' =
           (IF is_cuda118(torver)
            THEN Cuda118Patch(textgen_requirements)
            ELSE textgen_requirements)
    /\ Goto("filter_requirements")
    /\ UNCHANGED <<hostVars, files, issued, installed, installLocals,
                   initial_installation, pullLocals, extLocals, torver, machine,
                   cpuinfo, requirements_file, requirements_text, git_i>>

\* lines 324-331: no flash-attention on Windows for CUDA 11; temp_requirements.txt
\* is written; the git+ requirements are listed
FilterRequirements ==
    /\ pc = "filter_requirements"
    /\ textgen_requirements' =
           (IF is_windows(platform) /\ is_cuda118(torver)
            THEN RemoveFlashAttention(textgen_requirements)
            ELSE textgen_requirements)
    /\ git_i' = 1
    /\ Goto("uninstall_git")
    /\ UNCHANGED <<hostVars, files, issued, installed, installLocals,
                   initial_installation, pullLocals, extLocals, torver, machine,
                   cpuinfo, requirements_file, requirements_text>>

\* lines 332-336: the next git+ requirement is uninstalled
UninstallGit ==
    /\ pc = "uninstall_git"
    /\ git_i <= Len(GitRequirements(textgen_requirements))
    /\ issued' = Issue(UninstallCommand(GitRequirements(textgen_requirements)[git_i]),
                       FALSE, TRUE, << >>)
    /\ git_i' = git_i + 1
    /\ Goto("uninstall_git")
    /\ UNCHANGED <<hostVars, files, installed, installLocals, initial_installation,
                   pullLocals, extLocals, torver, machine, cpuinfo, requirements_file,
                   requirements_text, textgen_requirements>>

\* lines 339-341: the openai extension's requirements, if the file is there
InstallOpenai ==
    /\ pc = "uninstall_git"
    /\ git_i > Len(GitRequirements(textgen_requirements))
    /\ \E exists \in BOOLEAN :
        issued' = (IF exists
                   THEN Issue(ExtensionInstallCommand(platform, "openai"), FALSE, TRUE, << >>)
                   ELSE issued)
    /\ Goto("install_requirements")
    /\ UNCHANGED <<hostVars, files, installed, installLocals, updateLocals>>

\* lines 344-345: the project requirements
InstallRequirements ==
    /\ pc = "install_requirements"
    /\ \E rc \in ReturnCodes :
        /\ issued' = Issue(requirements_cmd, TRUE, TRUE, <<rc>>)
        /\ AssertSuccess(requirements_cmd, rc, "check_cuda")
    /\ UNCHANGED <<hostVars, files, installed, installLocals, updateLocals>>

\* CheckCuda with a bug: the early return of line 350 skips clear_cache()
CheckCuda_EarlyReturn ==
    /\ pc = "check_cuda"
    /\ IF ~(is_cuda(torver) \/ is_rocm(torver))
       THEN \E rc \in GrepReturnCodes :
            /\ issued' = Issue(conda_list_cmd, FALSE, TRUE, <<rc>>)
            /\ IF rc = 1
               THEN IF initial_installation THEN Goto("launch_check") ELSE Finish
               ELSE Goto("clear_cache")
       ELSE /\ issued' = issued
            /\ Goto("clear_cache")
    /\ UNCHANGED <<hostVars, files, installed, installLocals, updateLocals>>

\* lines 348-353: pytorch-cuda is looked for unless torch is a CUDA or ROCm
\* build; both ways lead to clear_cache()
CheckCuda ==
    /\ pc = "check_cuda"
    /\ IF ~(is_cuda(torver) \/ is_rocm(torver))
       THEN \E rc \in GrepReturnCodes :
            issued' = Issue(conda_list_cmd, FALSE, TRUE, <<rc>>)
       ELSE issued' = issued
    /\ Goto("clear_cache")
    /\ UNCHANGED <<hostVars, files, installed, installLocals, updateLocals>>

\* ClearCache with a bug: the script goes on to the launch after an update too
ClearCache_AlwaysLaunch ==
    /\ pc = "clear_cache"
    /\ issued' = Append(Issue(conda_clean_cmd, FALSE, TRUE, << >>),
                        [cmd |-> pip_purge_cmd, assert_success |-> FALSE,
                         environment |-> TRUE, returncode |-> << >>])
    /\ Goto("launch_check")
    /\ UNCHANGED <<hostVars, files, installed, installLocals, updateLocals>>

\* lines 122-124, called at 349 or 355; then update_requirements returns: to
\* line 377 of an install, to the end of the script of an update
ClearCache ==
    /\ pc = "clear_cache"
    /\ issued' = Append(Issue(conda_clean_cmd, FALSE, TRUE, << >>),
                        [cmd |-> pip_purge_cmd, assert_success |-> FALSE,
                         environment |-> TRUE, returncode |-> << >>])
    /\ IF initial_installation THEN Goto("launch_check") ELSE Finish
    /\ UNCHANGED <<hostVars, files, installed, installLocals, updateLocals>>

\* lines 379-397: LAUNCH_AFTER_INSTALL may end the run here
LaunchCheck ==
    /\ pc = "launch_check"
    /\ \E env \in BoolEnv \cup {<<>>} :
        IF Falsy(env) THEN Finish ELSE Goto("launch")
    /\ UNCHANGED <<hostVars, files, issued, installed, installLocals, updateLocals>>

\* lines 358-360 and 400: the server runs; the script ends when it returns
launch_webui ==
    /\ pc = "launch"
    /\ issued' = Issue(server_cmd, FALSE, TRUE, << >>)
    /\ Finish
    /\ UNCHANGED <<hostVars, files, installed, installLocals, updateLocals>>

----------------------------------------------------------------------------

Next ==
    \/ CheckEnv
    \/ Main
    \/ GpuChoice
    \/ GpuPrompt
    \/ SelectGpu
    \/ CudaPrompt
    \/ InstallPytorch
    \/ InstallRuntime
    \/ CallUpdateRequirements
    \/ GitInit
    \/ GitPull
    \/ CheckHashes
    \/ InstallDecision
    \/ InstallExtension
    \/ SelectRequirements
    \/ ReadRequirements
    \/ PatchRequirements
    \/ FilterRequirements
    \/ UninstallGit
    \/ InstallOpenai
    \/ InstallRequirements
    \/ CheckCuda
    \/ ClearCache
    \/ LaunchCheck
    \/ launch_webui

Spec == Init /\ [][Next]_vars

----------------------------------------------------------------------------
(* The legacy-CUDA patch on its own: update_requirements has just read the *)
(* requirements file, and lines 322-323 run on what it read.               *)

PatchInit ==
    /\ platform \in Platforms
    /\ args_update \in BOOLEAN
    /\ files = InitialFiles
    /\ pc = "patch_requirements"
    /\ exit_status = {}
    /\ printed = <<>>
    /\ issued = <<>>
    /\ torver \in TorchVersions
    /\ machine = NotProbed
    /\ cpuinfo = NoCpuinfo
    /\ installed = "not called"
    /\ choice = None
    /\ selected_gpu = ""
    /\ use_cuda118 = None
    /\ install_pytorch = ""
    /\ rt_i = 1
    /\ initial_installation = FALSE
    /\ before_pull_hashes = NoHashes
    /\ after_pull_hashes = NoHashes
    /\ extensions = <<>>
    /\ ext_i = 1
    /\ requirements_file = ""
    /\ requirements_text \in PatchFiles
    /\ textgen_requirements = requirements_text
    /\ git_i = 1

PatchNext == PatchRequirements

PatchSpec == PatchInit /\ [][PatchNext]_vars

----------------------------------------------------------------------------
(* Reading the list of issued commands.                                    *)

\* the commands that are no package-manager install or uninstall
OtherCommands ==
    { "conda", git_creation_cmd, git_pull_cmd, conda_list_cmd, conda_clean_cmd,
      pip_purge_cmd, server_cmd }

IsInstallCommand(e) == e.cmd \notin OtherCommands

\* every framework install command install_webui can build
FrameworkCommands ==
    { FrameworkCommand(ip) :
        ip \in { install_pytorch_base \o index :
                   index \in { "", "--index-url https://download.pytorch.org/whl/cu118",
                               "--index-url https://download.pytorch.org/whl/cu121",
                               "--index-url https://download.pytorch.org/whl/rocm5.6",
                               "--index-url https://download.pytorch.org/whl/cpu" } }
               \cup {install_pytorch_intel} }

\* every accelerator-runtime install command install_webui can build
RuntimeInstallCommands ==
    { "conda install -y -c \"nvidia/label/cuda-12.1.1\" cuda-runtime",
      "conda install -y -c \"nvidia/label/cuda-11.8.0\" cuda-runtime",
      "conda install -y -c intel dpcpp-cpp-rt=2024.0 mkl-dpcpp=2024.0",
      "conda install -y libuv" }

Indices(cmds) == { i \in 1..Len(issued) : issued[i].cmd \in cmds }

Succeeded(i) == issued[i].returncode = <<0>>

\* a successful pull was issued before the i-th command
PulledBefore(i) ==
    \E j \in 1..(i - 1) : issued[j].cmd = git_pull_cmd /\ Succeeded(j)

\* a tracked file is not what it was when the run began
TreeChanged == \E file_name \in TrackedFiles : files[file_name] # InitialFiles[file_name]

\* the tracked files that are not what they were, in list order
TreeChanges == SelectSeq(files_to_check, LAMBDA f : files[f] # InitialFiles[f])

\* the run ended at the sync guard: status 1, the message names file_name, and
\* the pull is the last command issued
EndedAtGuard(file_name) ==
    /\ pc = "exited"
    /\ exit_status = {1}
    /\ printed # << >>
    /\ printed[Len(printed)] = UpdatedMessage(file_name)
    /\ issued # << >>
    /\ issued[Len(issued)].cmd = git_pull_cmd

----------------------------------------------------------------------------
(* C1.  The sync guard.                                                    *)

\* C1 as stated: whenever the pull has changed tracked files (content changed,
\* file created or file removed), the run ends at the guard with status 1, no
\* command is issued after the pull, and for each changed file the message
\* printed names that file.
C1_GuardNamesEveryChangedFile ==
    (TreeChanged /\ pc # "check_hashes") =>
        \A i \in 1..Len(TreeChanges) : EndedAtGuard(TreeChanges[i])

\* C1, amended: whenever the pull has changed tracked files (content changed,
\* file created or file removed), the fingerprints taken before and after
\* differ exactly at those files, and once the comparison has run the process
\* has ended with status 1, the message names the first changed file in the
\* order of the tracked list, and no command, hence no install or uninstall,
\* was issued after the pull.
C1_GuardEndsRun ==
    /\ PulledBefore(Len(issued) + 1) =>
           \A file_name \in TrackedFiles :
               (before_pull_hashes[file_name] # after_pull_hashes[file_name])
                   <=> (files[file_name] # InitialFiles[file_name])
    /\ (TreeChanged /\ pc # "check_hashes") => EndedAtGuard(TreeChanges[1])

\* a pull removed one tracked file and created another, and the run ended at
\* the guard
C1_Witness ==
    /\ EndedAtGuard("start_linux.sh")
    /\ files["start_linux.sh"] = Absent
    /\ files["update_wsl.bat"] # Absent

----------------------------------------------------------------------------
(* C2.  The sync guard and the installation driver.                        *)

\* C2 as stated: on every run, every package-manager install command issued
\* comes after a successful pull, with the tracked files found unchanged.
C2_NoInstallBeforeSync ==
    \A i \in 1..Len(issued) :
        IsInstallCommand(issued[i]) => (PulledBefore(i) /\ ~TreeChanged)

\* C2, amended: every install or uninstall command of update_requirements
\* (extension, git requirement, API and project requirements) comes after a
\* successful pull whose before and after fingerprints are equal, on a first
\* install as on an update; the framework install and the accelerator-runtime
\* installs are issued on a first install only, and there before the pull.
C2_RequirementsAfterSync ==
    /\ \A i \in 1..Len(issued) :
           (IsInstallCommand(issued[i])
                /\ issued[i].cmd \notin FrameworkCommands \cup RuntimeInstallCommands)
           => /\ PulledBefore(i)
              /\ ~TreeChanged
              /\ before_pull_hashes = after_pull_hashes
              /\ before_pull_hashes = FileHashes(InitialFiles)
    /\ \A i \in Indices(FrameworkCommands \cup RuntimeInstallCommands) :
           ~args_update /\ ~PulledBefore(i) /\ Indices({git_pull_cmd}) \cap 1..i = {}

\* a first install that has issued the framework install, then the pull, then
\* the project requirements install
C2_Witness ==
    \E i \in Indices(FrameworkCommands), j \in Indices({git_pull_cmd}),
       k \in Indices({requirements_cmd}) : i < j /\ j < k

----------------------------------------------------------------------------
(* C3.  The install plan follows the selected GPU.                         *)

\* the decision table: the framework install for an OS, a GPU and the legacy flag
TableInstallPytorch(p, gpu, legacy) ==
    IF gpu = "NVIDIA" /\ p \in {"linux", "win32"}
    THEN install_pytorch_base \o "--index-url https://download.pytorch.org/whl/"
             \o (IF legacy THEN "cu118" ELSE "cu121")
    ELSE IF gpu = "AMD" /\ p = "linux"
    THEN install_pytorch_base \o "--index-url https://download.pytorch.org/whl/rocm5.6"
    ELSE IF gpu \in {"APPLE", "NONE"} /\ p = "linux"
    THEN install_pytorch_base \o "--index-url https://download.pytorch.org/whl/cpu"
    ELSE IF gpu = "INTEL"
    THEN install_pytorch_intel
    ELSE install_pytorch_base

\* the single letters of the menu
MenuLetters == { <<"A">>, <<"B">>, <<"C">>, <<"D">>, <<"N">> }

\* C3: once the framework install has been issued for a choice of the menu,
\* the GPU the plan was built for is the one chosen, and the command issued is
\* the decision table's for the OS, that GPU and the legacy-CUDA flag.
C3_PlanFollowsSelection ==
    (pc = "install_runtime" /\ choice \in MenuLetters) =>
        LET gpu == gpu_choice_to_name[Str(choice)]
            cmd == FrameworkCommand(
                       TableInstallPytorch(platform, gpu, use_cuda118 = <<"Y">>))
        IN  /\ selected_gpu = gpu
            /\ \E i \in 1..Len(issued) : issued[i].cmd = cmd

----------------------------------------------------------------------------
(* C4.  AMD off linux.                                                     *)

\* C4: when AMD was chosen and the OS is not linux, no package-manager install
\* command is issued, and once the install command has been looked for the
\* process has ended with status 1.
C4_AmdOffLinuxIsFatal ==
    (choice = <<"B">> /\ ~is_linux(platform)) =>
        /\ \A i \in 1..Len(issued) : ~IsInstallCommand(issued[i])
        /\ pc \notin {"gpu_choice", "gpu_prompt", "selected_gpu", "cuda_prompt",
                      "find_command"}
               => (pc = "exited" /\ exit_status = {1})

----------------------------------------------------------------------------
(* C5.  The requirements file.                                             *)

\* the priority list: ROCm, then CPU-only or Intel, then macOS, then default
TableRequirements(rocm, cpu_or_intel, macos, x86_64, avx2) ==
    IF rocm
    THEN (IF avx2 THEN "requirements_amd.txt" ELSE "requirements_amd_noavx2.txt")
    ELSE IF cpu_or_intel
    THEN (IF avx2 THEN "requirements_cpu_only.txt" ELSE "requirements_cpu_only_noavx2.txt")
    ELSE IF macos
    THEN (IF x86_64 THEN "requirements_apple_intel.txt" ELSE "requirements_apple_silicon.txt")
    ELSE (IF avx2 THEN "requirements.txt" ELSE "requirements_noavx2.txt")

\* C5: once update_requirements has chosen the requirements file, the name is
\* the priority list's for (ROCm build, CPU-only or Intel build, macOS, x86_64,
\* AVX2), whatever the host facts the run did not probe are: one name for every
\* combination, and requirements_amd_noavx2.txt for a ROCm build without AVX2
\* on every OS.
C5_RequirementsFile ==
    torver # None =>
        \A m \in (IF machine = NotProbed THEN Machines ELSE {machine}),
           c \in (IF cpuinfo = NoCpuinfo THEN Cpuinfos ELSE {cpuinfo}) :
            requirements_file =
                TableRequirements(is_rocm(torver), is_cpu(torver) \/ is_intel(torver),
                                  is_macos(platform), is_x86_64(m), cpu_has_avx2(c))

\* a ROCm build without AVX2 on macOS got requirements_amd_noavx2.txt
C5_Witness ==
    /\ torver = V_rocm
    /\ is_macos(platform)
    /\ ~cpuinfo.raises /\ "avx2" \notin cpuinfo.flags /\ cpuinfo # NoCpuinfo
    /\ requirements_file = "requirements_amd_noavx2.txt"

----------------------------------------------------------------------------
(* C6.  Must-succeed commands and per-extension installs.                  *)

CudaRuntimeCommands ==
    { "conda install -y -c \"nvidia/label/cuda-12.1.1\" cuda-runtime",
      "conda install -y -c \"nvidia/label/cuda-11.8.0\" cuda-runtime" }

MustSucceedCommands ==
    {git_pull_cmd, requirements_cmd} \cup FrameworkCommands \cup CudaRuntimeCommands

\* the index of the pull in the list of issued commands (0 if there is none)
PullIndex ==
    IF Indices({git_pull_cmd}) = {} THEN 0
    ELSE CHOOSE j \in Indices({git_pull_cmd}) : TRUE

\* the i-th command issued after the pull is the install of the i-th extension
ExtensionAttempted(i) ==
    /\ PullIndex + i <= Len(issued)
    /\ issued[PullIndex + i].cmd = ExtensionInstallCommand(platform, extensions[i])

\* C6: a must-succeed command (pull, framework install, CUDA runtime install,
\* final requirements install) that exits non-zero is the last command issued
\* and the process has ended with status 1.  A per-extension install never
\* ends the run, whatever its exit status: the extensions not on the deny-list
\* are attempted one after the other in order directly after the pull, and a
\* run that got past the sync guard does not end before the final requirements
\* install is issued.
C6_FailureHandling ==
    /\ \A i \in 1..Len(issued) :
           (issued[i].cmd \in MustSucceedCommands /\ ~Succeeded(i))
           => (i = Len(issued) /\ pc = "exited" /\ exit_status = {1})
    /\ \A i \in 1..Len(extensions) : extensions[i] \notin skip
    /\ pc = "install_extensions" =>
           /\ Len(issued) = PullIndex + ext_i - 1
           /\ \A i \in 1..(ext_i - 1) : ExtensionAttempted(i)
    /\ torver # None => \A i \in 1..Len(extensions) : ExtensionAttempted(i)
    /\ (pc = "exited" /\ PullIndex > 0 /\ Succeeded(PullIndex) /\ ~TreeChanged)
           => \E r \in Indices({requirements_cmd}) : r > PullIndex + Len(extensions)

\* a run where the first of two extension installs failed, the second was
\* attempted, and the final requirements install was issued and succeeded
C6_Witness ==
    /\ pc = "exited" /\ exit_status = {0}
    /\ Len(extensions) = 2
    /\ ExtensionAttempted(1) /\ ~Succeeded(PullIndex + 1)
    /\ ExtensionAttempted(2) /\ Succeeded(PullIndex + 2)
    /\ \E r \in Indices({requirements_cmd}) : Succeeded(r)

----------------------------------------------------------------------------
(* C7.  --update and the launch.                                           *)

\* C7: with --update neither a framework install nor the server launch is ever
\* issued.  Without it, the launch is the last command issued, no process that
\* issued it ended with status 1, no must-succeed command failed before it, and
\* either the application was already installed and install_webui was skipped
\* (nothing but the conda check came before), or install_webui ran to its end:
\* framework install, then the project requirements install, both successful,
\* then the cache purge.
C7_UpdateOnlyAndLaunch ==
    /\ args_update =>
           Indices(FrameworkCommands) = {} /\ Indices({server_cmd}) = {}
    /\ \A i \in Indices({server_cmd}) :
           /\ ~args_update
           /\ i = Len(issued)
           /\ exit_status = {0}
           /\ \A j \in 1..(i - 1) :
                  issued[j].returncode # << >> =>
                      (Succeeded(j) \/ ~issued[j].assert_success)
           /\ \/ installed = "True" /\ i = 2
              \/ /\ installed = "False"
                 /\ \E f \in Indices(FrameworkCommands), r \in Indices({requirements_cmd}),
                       c \in Indices({pip_purge_cmd}) :
                        f < r /\ r < c /\ c < i /\ Succeeded(f) /\ Succeeded(r)

\* the server was launched at the end of a first install
C7_Witness ==
    /\ installed = "False"
    /\ Indices({server_cmd}) # {}

----------------------------------------------------------------------------
(* C8.  Cache cleanup.                                                     *)

\* update_requirements has issued an install or uninstall command
DriverStarted ==
    \E i \in 1..Len(issued) : IsInstallCommand(issued[i]) /\ PulledBefore(i)

CachesCleared ==
    \E c \in Indices({conda_clean_cmd}), p \in Indices({pip_purge_cmd}) : c < p

\* C8 as stated: a process that has ended after update_requirements started
\* issuing install commands has issued both cache-clear commands.
C8_CachesAlwaysCleared ==
    (pc = "exited" /\ DriverStarted) => CachesCleared

\* C8, amended: a process that has ended after update_requirements started
\* issuing install commands has issued the final requirements install; if
\* that install succeeded, both cache-clear commands were issued after it in
\* order (conda clean, then pip cache purge), whatever the per-extension
\* installs returned; if it failed, the process ended with status 1 right
\* there and no cache-clear command was issued.
C8_CachesClearedAfterRequirements ==
    (pc = "exited" /\ DriverStarted) =>
        \E r \in Indices({requirements_cmd}) :
            IF Succeeded(r)
            THEN \E c \in Indices({conda_clean_cmd}), p \in Indices({pip_purge_cmd}) :
                     r < c /\ p = c + 1
            ELSE /\ r = Len(issued)
                 /\ exit_status = {1}
                 /\ Indices({conda_clean_cmd, pip_purge_cmd}) = {}

\* a run that ended with the caches cleared although an extension install failed
C8_Witness ==
    /\ pc = "exited"
    /\ DriverStarted
    /\ CachesCleared
    /\ extensions # << >> /\ ExtensionAttempted(1) /\ ~Succeeded(PullIndex + 1)

----------------------------------------------------------------------------
(* C9.  The legacy-CUDA patch.                                             *)

\* one of the tokens +cu121, +cu122 starts at position j of line
TokenAt(line, j) ==
    /\ j >= 1
    /\ j + 5 <= Len(line)
    /\ SubSeq(line, j, j + 5) \in {S_cu121, S_cu122}

\* patched is line with the last two characters of every +cu121 and +cu122
\* turned into 18, and every other character as it was
LinePatched(line, patched) ==
    /\ Len(patched) = Len(line)
    /\ \A k \in 1..Len(line) :
           patched[k] = (IF TokenAt(line, k - 4) THEN "1"
                         ELSE IF TokenAt(line, k - 5) THEN "8"
                         ELSE line[k])

HasToken(line) == Contains(S_cu121, line) \/ Contains(S_cu122, line)

\* C9: after the legacy-CUDA patch has run for a +cu118 torch, the list has as
\* many lines as the file, line by line in the same order; every +cu121 and
\* +cu122 of a line has become +cu118 and nothing else in it has changed; no
\* +cu121 or +cu122 is left; a file without these tokens (an already patched
\* one, or one that only uses +cu118) is unchanged; and patching the result
\* again changes nothing.
C9_Cuda118Patch ==
    (pc = "filter_requirements" /\ is_cuda118(torver)) =>
        /\ Len(textgen_requirements) = Len(requirements_text)
        /\ \A i \in 1..Len(requirements_text) :
               /\ LinePatched(requirements_text[i], textgen_requirements[i])
               /\ ~HasToken(textgen_requirements[i])
        /\ (\A i \in 1..Len(requirements_text) : ~HasToken(requirements_text[i]))
               => textgen_requirements = requirements_text
        /\ Cuda118Patch(textgen_requirements) = textgen_requirements

\* a two-line file, one line with both tokens and one already on +cu118, patched
C9_Witness ==
    /\ pc = "filter_requirements"
    /\ is_cuda118(torver)
    /\ requirements_text =
           << <<"+", "c", "u", "1", "2", "1", "+", "c", "u", "1", "2", "2">>,
              <<"a", "+", "c", "u", "1", "1", "8">> >>
    /\ textgen_requirements =
           << <<"+", "c", "u", "1", "1", "8", "+", "c", "u", "1", "1", "8">>,
              <<"a", "+", "c", "u", "1", "1", "8">> >>

----------------------------------------------------------------------------
(* C10.  The GPU prompt.                                                   *)

\* C10: the prompt loop is left only with a choice that is one of the single
\* letters A, B, C, D, N; any other input leads to another prompt.
C10_PromptAcceptsOnlyLetters ==
    [][(pc = "gpu_prompt" /\ pc' = "selected_gpu") => choice \in MenuLetters]_vars

====
